---- MODULE Spec2Model ----
(***************************************************************************)
(* Model of greeting_agent/agent.py: the start-up configuration check,     *)
(* the special-day lookup tool (get_special_day_info_from_external_source  *)
(* and its helper _search_special_days), and the event loop of             *)
(* SpecialDayAgent.run_daily_check.                                        *)
(*                                                                         *)
(* Python strings are sequences of one-character strings.  A Python value  *)
(* that may be None, a str or something else is a record                   *)
(* [type |-> <Python type name>, val |-> <characters>].                    *)
(***************************************************************************)
EXTENDS Integers, Sequences, FiniteSets, TLC

\* ------------------------------------------------------------------ bounds

\* Longest "items" list a provider response carries in the model.
MaxItems == 2
\* Most invocations of the lookup tool in one run of the process.
MaxCalls == 2
\* Most invocations of the lookup tool when it is checked alone.
MaxLookups == 1
\* Most events the agent runtime yields in one run.
MaxEvents == 2

\* ------------------------------------------------------- Python values

PyNone == [type |-> "NoneType", val |-> <<>>]
Str(s) == [type |-> "str", val |-> s]
PyInt7 == [type |-> "int", val |-> <<"7">>]

\* Python truthiness: None and "" are false; a non-empty str and 7 are true.
Truthy(v) == v.type # "NoneType" /\ v.val # <<>>

\* ------------------------------------------------------- str operations

UpperCase == <<"A","B","C","D","E","F","G","H","I","J","K","L","M",
               "N","O","P","Q","R","S","T","U","V","W","X","Y","Z">>
LowerCase == <<"a","b","c","d","e","f","g","h","i","j","k","l","m",
               "n","o","p","q","r","s","t","u","v","w","x","y","z">>

\* str.lower() on one character.
LowerChar(c) ==
    IF \E i \in 1..Len(UpperCase) : UpperCase[i] = c
    THEN LowerCase[CHOOSE i \in 1..Len(UpperCase) : UpperCase[i] = c]
    ELSE c

\* str.lower()
Lower(s) == [i \in 1..Len(s) |-> LowerChar(s[i])]

\* Whether pat occurs in s at offset i (1-based).
OccursAt(s, pat, i) ==
    /\ i >= 1
    /\ i + Len(pat) - 1 <= Len(s)
    /\ SubSeq(s, i, i + Len(pat) - 1) = pat

\* Python's  pat in s.
In(pat, s) == \E i \in 1..(Len(s) + 1) : OccursAt(s, pat, i)

\* str.find(pat) + 1: the 1-based offset of the leftmost occurrence, 0 if none.
Find(s, pat) ==
    IF In(pat, s)
    THEN CHOOSE i \in 1..(Len(s) + 1) :
            /\ OccursAt(s, pat, i)
            /\ \A j \in 1..(i - 1) : ~OccursAt(s, pat, j)
    ELSE 0

\* s.split(sep)[0]: the text before the leftmost occurrence of sep, all of s
\* when sep does not occur.
SplitFirst(s, sep) ==
    IF Find(s, sep) = 0 THEN s ELSE SubSeq(s, 1, Find(s, sep) - 1)

Whitespace == {" ", "\t", "\n"}

RECURSIVE LStrip(_)
LStrip(s) ==
    IF s # <<>> /\ Head(s) \in Whitespace THEN LStrip(Tail(s)) ELSE s

RECURSIVE RStrip(_)
RStrip(s) ==
    IF s # <<>> /\ s[Len(s)] \in Whitespace
    THEN RStrip(SubSeq(s, 1, Len(s) - 1))
    ELSE s

\* A version of str.strip() that trims the left side only.
Strip_LeftOnly(s) == LStrip(s)

\* str.strip()
Strip(s) == RStrip(LStrip(s))

\* The title as searched in a case-sensitive test.
TitleLower_CaseSensitive(title) == title

\* title.lower() of line 86.
TitleLower(title) == Lower(title)

Dots == <<".", ".", ".">>
DayWord == <<"d", "a", "y">>
ObservanceWord == <<"o", "b", "s", "e", "r", "v", "a", "n", "c", "e">>

\* ------------------------------------------------------------ sample data

IntlDayOfX == <<"I","n","t","e","r","n","a","t","i","o","n","a","l"," ",
                "D","a","y"," ","o","f"," ","X">>
UpperObservance == <<"O","B","S","E","R","V","A","N","C","E">>
News == <<"N","e","w","s">>

ADayForXMore == <<"A"," ","d","a","y"," ","f","o","r"," ","X",".",".",".",
                  " ","m","o","r","e"," ","t","e","x","t">>
ADayForX == <<"A"," ","d","a","y"," ","f","o","r"," ","X">>
TwoEllipses == <<" ","b"," ",".",".",".","c",".",".","."," ","d">>
PaddedE == <<" ","e"," ">>

\* item.get('title'): None when the key is missing, otherwise the value.
Titles == {PyNone, Str(<<>>), Str(IntlDayOfX), Str(UpperObservance),
           Str(News), PyInt7}
\* item.get('snippet')
Snippets == {PyNone, Str(<<>>), Str(ADayForXMore), Str(TwoEllipses),
             Str(PaddedE)}

\* A result item: a dict with the two fields, or a value that is no dict.
Items == [type : {"dict"}, title : Titles, snippet : Snippets]
         \cup {[type |-> "str", title |-> PyNone, snippet |-> PyNone]}

ItemLists == UNION {[1..n -> Items] : n \in 0..MaxItems}

\* What execute() returns: a dict without "items", a dict with an "items"
\* list, a dict whose "items" is null, or a value that is no dict.
NoItemsResponse == [type |-> "dict", has_items |-> FALSE, items |-> <<>>,
                    iterable |-> TRUE]
Responses ==
    {NoItemsResponse}
    \cup {[type |-> "dict", has_items |-> TRUE, items |-> l, iterable |-> TRUE] :
            l \in ItemLists}
    \cup {[type |-> "dict", has_items |-> TRUE, items |-> <<>>, iterable |-> FALSE]}
    \cup {[type |-> "NoneType", has_items |-> FALSE, items |-> <<>>,
           iterable |-> FALSE]}

May21 == <<"M","a","y"," ","2","1">>
June05 == <<"J","u","n","e"," ","0","5">>
DateQueries == {May21, June05}

EmptyMap == [t \in {} |-> <<>>]

\* f"international OR world OR national day {date_query} official observances"
QueryPrefix == <<"i","n","t","e","r","n","a","t","i","o","n","a","l"," ","O","R",
                 " ","w","o","r","l","d"," ","O","R"," ","n","a","t","i","o","n",
                 "a","l"," ","d","a","y"," ">>
QuerySuffix == <<" ","o","f","f","i","c","i","a","l"," ","o","b","s","e","r","v",
                 "a","n","c","e","s">>
SearchQuery(date_query) == QueryPrefix \o date_query \o QuerySuffix

\* The num argument of cse().list(...).
NumResults == 5

\* The cx argument of cse().list(...), given the two configuration values.
RequestCx_Swapped(api_key, cse_id) == api_key
RequestCx(api_key, cse_id) == cse_id

\* Values the two environment variables may hold: unset, empty, set.
KeyValues == {PyNone, Str(<<>>), Str(<<"K">>)}
IdValues == {PyNone, Str(<<>>), Str(<<"c", "x">>)}

\* os.getenv(name)
Getenv(env, name) == env[name]

\* The condition of line 32 with "and" in place of "or".
ConfigMissing_Both(api_key, cse_id) == ~Truthy(api_key) /\ ~Truthy(cse_id)
\* not GOOGLE_CSE_API_KEY or not GOOGLE_CSE_ID
ConfigMissing(api_key, cse_id) == ~Truthy(api_key) \/ ~Truthy(cse_id)

\* -------------------------------------------------------------- exceptions

NoExc == [type |-> "none", line |-> 0]
Exc(t, l) == [type |-> t, line |-> l]

\* Exceptions build() may raise (line 74) and execute() may raise (line 79).
BuildErrors == {"UnknownApiNameOrVersion", "ServerNotFoundError"}
ExecuteErrors == {"HttpError", "ServerNotFoundError"}
ExceptionSubclasses == BuildErrors \cup ExecuteErrors \cup {"TypeError", "AttributeError"}

\* An except clause that names the provider's error only.
Catches_HttpErrorOnly(exc_type) == exc_type = "HttpError"
\* except Exception: every exception type above derives from Exception.
Catches(exc_type) == exc_type \in ExceptionSubclasses

\* ------------------------------------------------- _search_special_days

\* "day" in title.lower() or "observance" in title.lower()
Matches(title) ==
    \/ In(DayWord, TitleLower(title))
    \/ In(ObservanceWord, TitleLower(title))

\* snippet.split('...')[0].strip()
Description(snippet) == Strip(SplitFirst(snippet, Dots))

\* results[title] = description, without the test of line 89.
Insert_Overwrite(results, title, description) ==
    (title :> description) @@ results
\* if title not in results: results[title] = description
Insert(results, title, description) ==
    IF title \in DOMAIN results THEN results
    ELSE (title :> description) @@ results

\* A results dict that outlives the call (a shared or default-argument dict).
HelperResultsInit_Shared(previous) == previous
\* results = {} of line 72; previous is the dict the last call built.
HelperResultsInit(previous) == EmptyMap

\* The handler returning what the helper had built when it raised.
ResultsAfterExcept_Partial(wrapper_results, helper_results) == helper_results
\* The wrapper's results after the except block: the helper's dict was never
\* assigned, so it is still the dict of line 55.
ResultsAfterExcept(wrapper_results, helper_results) == wrapper_results

\* ------------------------------------------------------ run_daily_check

EventTypes == {"tool_code", "tool_response", "agent_response", "error", "other"}
\* An event and whether the attributes its branch reads exist.
Events == [type : EventTypes \ {"other"}, wellformed : BOOLEAN]
          \cup {[type |-> "other", wellformed |-> TRUE]}

\* An event loop whose error branch lacks its break.
Breaks_AgentResponseOnly(event_type) == event_type = "agent_response"
\* The branches of the loop that end in break.
Breaks(event_type) == event_type \in {"agent_response", "error"}

Info(m) == [level |-> "INFO", msg |-> m]
Error(m) == [level |-> "ERROR", msg |-> m]

\* ------------------------------------------------------------------ state

VARIABLES
    environ,             \* the process environment after load_dotenv()
    GOOGLE_CSE_API_KEY,  \* module global, line 28
    GOOGLE_CSE_ID,       \* module global, line 29
    pc,                  \* position of the main script
    exit_status,         \* -1 while the process runs, then its exit status
    agent,               \* "none" or "constructed" (SpecialDayAgent.__init__)
    events,              \* events the for loop of run_daily_check received
    printed,             \* lines written to standard output
    log,                 \* records written through logging
    tpc,                 \* position inside the lookup tool
    calls,               \* invocations of the lookup tool so far
    date_query,          \* argument of the current invocation
    res,                 \* res of line 79
    idx,                 \* position of the for loop of line 82
    results,             \* results of _search_special_days (line 72)
    tool_results,        \* results of the wrapper (line 55)
    exc,                 \* exception in flight or caught (e of line 59)
    ret,                 \* value the wrapper returned (line 65)
    requests             \* outbound requests issued to the search provider

proc_vars == <<environ, GOOGLE_CSE_API_KEY, GOOGLE_CSE_ID, pc, exit_status, agent>>
loop_vars == <<events, printed>>
tool_vars == <<tpc, calls, date_query, res, idx, results, tool_results, exc,
               ret, requests>>
vars == <<proc_vars, loop_vars, log, tool_vars>>

\* The runtime is not inside a call of the tool.
ToolIdle == tpc = "idle"

ToolInit ==
    /\ tpc = "idle"
    /\ calls = 0
    /\ date_query = <<>>
    /\ res = NoItemsResponse
    /\ idx = 0
    /\ results = EmptyMap
    /\ tool_results = EmptyMap
    /\ exc = NoExc
    /\ ret = EmptyMap
    /\ requests = <<>>

\* The process before line 28 runs, for every content of the environment.
Init ==
    /\ environ \in {e \in [{"GOOGLE_CSE_API_KEY", "GOOGLE_CSE_ID"} ->
                                KeyValues \cup IdValues] :
                        /\ e["GOOGLE_CSE_API_KEY"] \in KeyValues
                        /\ e["GOOGLE_CSE_ID"] \in IdValues}
    /\ GOOGLE_CSE_API_KEY = PyNone
    /\ GOOGLE_CSE_ID = PyNone
    /\ pc = "getenv"
    /\ exit_status = -1
    /\ agent = "none"
    /\ events = <<>>
    /\ printed = <<>>
    /\ log = <<>>
    /\ ToolInit

\* -------------------------------------------------- module level, 28-35

\* Lines 28-29.
LoadEnv ==
    /\ pc = "getenv"
    /\ GOOGLE_CSE_API_KEY' = Getenv(environ, "GOOGLE_CSE_API_KEY")
    /\ GOOGLE_CSE_ID' = Getenv(environ, "GOOGLE_CSE_ID")
    /\ pc' = "check"
    /\ UNCHANGED <<environ, exit_status, agent, loop_vars, log, tool_vars>>

\* Lines 32-35: log and sys.exit(1) when a value is missing; otherwise the
\* module goes on to define the tool and the agent class and reaches line 181.
CheckEnv ==
    /\ pc = "check"
    /\ IF ConfigMissing(GOOGLE_CSE_API_KEY, GOOGLE_CSE_ID)
       THEN /\ log' = Append(log, Error("missing_config"))
            /\ exit_status' = 1
            /\ pc' = "exited"
       ELSE /\ pc' = "main"
            /\ UNCHANGED <<log, exit_status>>
    /\ UNCHANGED <<environ, GOOGLE_CSE_API_KEY, GOOGLE_CSE_ID, agent, loop_vars,
                   tool_vars>>

\* ------------------------------------------------- __main__, 181-184

\* Line 181: SpecialDayAgent(model_name="gemini-pro") returns.
ConstructAgent ==
    /\ pc = "main"
    /\ agent' = "constructed"
    /\ pc' = "run"
    /\ UNCHANGED <<environ, GOOGLE_CSE_API_KEY, GOOGLE_CSE_ID, exit_status,
                   loop_vars, log, tool_vars>>

\* Line 181: LlmAgent(...), the safety_settings dict or Runner(...) raises in
\* __init__ (lines 107-133).  No handler encloses line 181: the interpreter
\* prints the traceback and the process ends with status 1.
ConstructAgentRaises ==
    /\ pc = "main"
    /\ exit_status' = 1
    /\ pc' = "exited"
    /\ UNCHANGED <<environ, GOOGLE_CSE_API_KEY, GOOGLE_CSE_ID, agent,
                   loop_vars, log, tool_vars>>

\* Lines 140-151: the banner, the prompt, and the call of runner.run.
StartRun ==
    /\ pc = "run"
    /\ printed' = Append(printed, "banner")
    /\ log' = Append(log, Info("initial_prompt"))
    /\ pc' = "loop"
    /\ UNCHANGED <<environ, GOOGLE_CSE_API_KEY, GOOGLE_CSE_ID, exit_status, agent,
                   events, tool_vars>>

\* The body of the for loop (lines 152-165) for one event, with the handler of
\* lines 166-168 when reading the event's attributes raises.
HandleEvent(event) ==
    /\ pc = "loop"
    /\ ToolIdle
    /\ Len(events) < MaxEvents
    /\ events' = Append(events, event)
    /\ CASE event.type = "tool_code" /\ event.wellformed ->
              /\ log' = Append(log, Info("adk_tool_code"))
              /\ printed' = Append(printed, "debug_tool_code")
         [] event.type = "tool_response" /\ event.wellformed ->
              /\ log' = Append(log, Info("adk_tool_response"))
              /\ printed' = Append(printed, "debug_tool_response")
         [] event.type = "agent_response" /\ event.wellformed ->
              /\ log' = log
              /\ printed' = printed \o <<"final_header", "final_text">>
         [] event.type = "agent_response" /\ ~event.wellformed ->
              /\ log' = Append(log, Error("unhandled_exception"))
              /\ printed' = printed \o <<"final_header", "unhandled_error">>
         [] event.type = "error" /\ event.wellformed ->
              /\ log' = Append(log, Error("adk_error"))
              /\ printed' = Append(printed, "agent_error")
         [] event.type = "other" ->
              /\ log' = log
              /\ printed' = printed
         [] OTHER ->
              /\ log' = Append(log, Error("unhandled_exception"))
              /\ printed' = Append(printed, "unhandled_error")
    /\ pc' = IF Breaks(event.type) \/ ~event.wellformed THEN "after_run" ELSE "loop"
    /\ UNCHANGED <<environ, GOOGLE_CSE_API_KEY, GOOGLE_CSE_ID, exit_status, agent,
                   tool_vars>>

\* runner.run raises while the loop waits for the next event: lines 166-168.
RuntimeRaises ==
    /\ pc = "loop"
    /\ ToolIdle
    /\ log' = Append(log, Error("unhandled_exception"))
    /\ printed' = Append(printed, "unhandled_error")
    /\ pc' = "after_run"
    /\ UNCHANGED <<environ, GOOGLE_CSE_API_KEY, GOOGLE_CSE_ID, exit_status, agent,
                   events, tool_vars>>

\* runner.run yields no further event: the for loop ends.
RuntimeExhausted ==
    /\ pc = "loop"
    /\ ToolIdle
    /\ pc' = "after_run"
    /\ UNCHANGED <<environ, GOOGLE_CSE_API_KEY, GOOGLE_CSE_ID, exit_status, agent,
                   loop_vars, log, tool_vars>>

\* Line 184, then the normal end of the script.
Complete ==
    /\ pc = "after_run"
    /\ printed' = Append(printed, "complete")
    /\ exit_status' = 0
    /\ pc' = "exited"
    /\ UNCHANGED <<environ, GOOGLE_CSE_API_KEY, GOOGLE_CSE_ID, agent, events, log,
                   tool_vars>>

\* ------------------------- get_special_day_info_from_external_source, 54-65

\* The agent runtime invokes the tool: lines 54-57 of the wrapper, then lines
\* 72-73 of the helper, up to the call of build().
ToolCall(q, limit) ==
    /\ pc = "loop"
    /\ ToolIdle
    /\ calls < limit
    /\ calls' = calls + 1
    /\ date_query' = q
    /\ tool_results' = EmptyMap
    /\ results' = HelperResultsInit(results)
    /\ exc' = NoExc
    /\ log' = log \o <<Info("tool_call"), Info("attempting_cse")>>
    /\ tpc' = "build"
    /\ UNCHANGED <<proc_vars, loop_vars, res, idx, ret, requests>>

\* Line 74 returns the client; lines 76-77 build and log the query.
BuildReturns ==
    /\ tpc = "build"
    /\ log' = Append(log, Info("search_query"))
    /\ tpc' = "execute"
    /\ UNCHANGED <<proc_vars, loop_vars, calls, date_query, res, idx, results,
                   tool_results, exc, ret, requests>>

\* Line 74 raises.
BuildRaises(e) ==
    /\ tpc = "build"
    /\ exc' = Exc(e, 74)
    /\ tpc' = "raised"
    /\ UNCHANGED <<proc_vars, loop_vars, log, calls, date_query, res, idx, results,
                   tool_results, ret, requests>>

\* The request of line 79.
Request ==
    [call |-> calls,
     q    |-> SearchQuery(date_query),
     cx   |-> RequestCx(GOOGLE_CSE_API_KEY, GOOGLE_CSE_ID),
     num  |-> NumResults]

\* Line 79 returns r; line 81 tests it and line 82 starts iterating.
ExecuteReturns(r) ==
    /\ tpc = "execute"
    /\ requests' = Append(requests, Request)
    /\ res' = r
    /\ idx' = 1
    /\ IF r.type # "dict"
       THEN exc' = Exc("TypeError", 81) /\ tpc' = "raised"
       ELSE IF r.has_items /\ ~r.iterable
       THEN exc' = Exc("TypeError", 82) /\ tpc' = "raised"
       ELSE exc' = exc /\ tpc' = "loop"
    /\ UNCHANGED <<proc_vars, loop_vars, log, calls, date_query, results,
                   tool_results, ret>>

\* Line 79 raises: the request went out and failed.
ExecuteRaises(e) ==
    /\ tpc = "execute"
    /\ requests' = Append(requests, Request)
    /\ exc' = Exc(e, 79)
    /\ tpc' = "raised"
    /\ UNCHANGED <<proc_vars, loop_vars, log, calls, date_query, res, idx, results,
                   tool_results, ret>>

\* One pass of the loop body, lines 83-90.
LoopItem ==
    /\ tpc = "loop"
    /\ idx <= Len(res.items)
    /\ LET item == res.items[idx]
           title == item.title
           snippet == item.snippet
       IN  IF item.type # "dict"
           THEN exc' = Exc("AttributeError", 83) /\ tpc' = "raised"
                /\ UNCHANGED results
           ELSE IF ~(Truthy(title) /\ Truthy(snippet))
           THEN UNCHANGED <<exc, tpc, results>>
           ELSE IF title.type # "str"
           THEN exc' = Exc("AttributeError", 86) /\ tpc' = "raised"
                /\ UNCHANGED results
           ELSE IF ~Matches(title.val)
           THEN UNCHANGED <<exc, tpc, results>>
           ELSE IF snippet.type # "str"
           THEN exc' = Exc("AttributeError", 88) /\ tpc' = "raised"
                /\ UNCHANGED results
           ELSE /\ results' = Insert(results, title.val, Description(snippet.val))
                /\ UNCHANGED <<exc, tpc>>
    /\ idx' = idx + 1
    /\ UNCHANGED <<proc_vars, loop_vars, log, calls, date_query, res,
                   tool_results, ret, requests>>

\* The loop is over (or line 81 found no "items"): lines 91-92 of the helper,
\* then the assignment of line 58 and the return of line 65.
HelperReturns ==
    /\ tpc = "loop"
    /\ idx > Len(res.items)
    /\ log' = Append(log, Info("cse_returned"))
    /\ tool_results' = results
    /\ ret' = results
    /\ tpc' = "returned"
    /\ UNCHANGED <<proc_vars, loop_vars, calls, date_query, res, idx, results, exc,
                   requests>>

\* The exception reaches the try of line 57: lines 59-63, then line 65.  An
\* exception the clause does not catch leaves the wrapper.
Except ==
    /\ tpc = "raised"
    /\ IF Catches(exc.type)
       THEN /\ log' = Append(log, Error("tool_error"))
            /\ tool_results' = ResultsAfterExcept(tool_results, results)
            /\ ret' = ResultsAfterExcept(tool_results, results)
            /\ tpc' = "returned"
       ELSE /\ tpc' = "propagated"
            /\ UNCHANGED <<log, tool_results, ret>>
    /\ UNCHANGED <<proc_vars, loop_vars, calls, date_query, res, idx, results, exc,
                   requests>>

\* The return of line 65 completes: the runtime has the mapping, and the
\* frames of the wrapper and the helper are gone with their locals.  The dict
\* object line 72 created is left as it was; nothing refers to it any more.
ReturnToRuntime ==
    /\ tpc = "returned"
    /\ tpc' = "idle"
    /\ res' = NoItemsResponse
    /\ idx' = 0
    /\ tool_results' = EmptyMap
    /\ exc' = NoExc
    /\ ret' = EmptyMap
    /\ UNCHANGED <<proc_vars, loop_vars, log, calls, date_query, results, requests>>

\* ------------------------------------------------------- specifications

\* Responses the whole-process specification draws from: no "items", one kept
\* item, the same title with another snippet, a kept item followed by a value
\* that is no dict, and no dict at all.
KeptItem == [type |-> "dict", title |-> Str(IntlDayOfX), snippet |-> Str(ADayForXMore)]
SameTitleItem == [type |-> "dict", title |-> Str(IntlDayOfX), snippet |-> Str(PaddedE)]
NotADict == [type |-> "str", title |-> PyNone, snippet |-> PyNone]
ItemsResponse(l) == [type |-> "dict", has_items |-> TRUE, items |-> l, iterable |-> TRUE]
RunResponses ==
    {NoItemsResponse,
     ItemsResponse(<<KeptItem>>),
     ItemsResponse(<<SameTitleItem>>),
     ItemsResponse(<<KeptItem, NotADict>>),
     [type |-> "NoneType", has_items |-> FALSE, items |-> <<>>, iterable |-> FALSE]}

\* The steps of the lookup tool, invoked at most limit times with a date
\* query of Q, the provider answering from the set R.
Lookup(Q, R, limit) ==
    \/ \E q \in Q : ToolCall(q, limit)
    \/ BuildReturns
    \/ \E e \in BuildErrors : BuildRaises(e)
    \/ tpc = "execute" /\ \E r \in R : ExecuteReturns(r)
    \/ \E e \in ExecuteErrors : ExecuteRaises(e)
    \/ LoopItem
    \/ HelperReturns
    \/ Except
    \/ ReturnToRuntime

\* The whole process.
Next ==
    \/ LoadEnv
    \/ CheckEnv
    \/ ConstructAgent
    \/ ConstructAgentRaises
    \/ StartRun
    \/ \E event \in Events : HandleEvent(event)
    \/ RuntimeRaises
    \/ RuntimeExhausted
    \/ Complete
    \/ Lookup(DateQueries, RunResponses, MaxCalls)

Spec == Init /\ [][Next]_vars

\* The lookup tool alone: the process has reached the loop of run_daily_check
\* with both configuration values set, and the runtime invokes the tool up to
\* MaxLookups times, for one date query and every provider response of the
\* model.
InitLookup ==
    /\ environ = [n \in {"GOOGLE_CSE_API_KEY", "GOOGLE_CSE_ID"} |->
                    IF n = "GOOGLE_CSE_API_KEY" THEN Str(<<"K">>) ELSE Str(<<"c", "x">>)]
    /\ GOOGLE_CSE_API_KEY = Str(<<"K">>)
    /\ GOOGLE_CSE_ID = Str(<<"c", "x">>)
    /\ pc = "loop"
    /\ exit_status = -1
    /\ agent = "constructed"
    /\ events = <<>>
    /\ printed = <<"banner">>
    /\ log = <<Info("initial_prompt")>>
    /\ ToolInit

NextLookup == Lookup({May21}, Responses, MaxLookups)

SpecLookup == InitLookup /\ [][NextLookup]_vars

\* ------------------------------------------------------------ properties

\* Whether word w occurs in s when the case of s is ignored.
ContainsIgnoringCase(s, w) ==
    \E k \in 0..(Len(s) - Len(w)) : \A j \in 1..Len(w) : LowerChar(s[k + j]) = w[j]

\* An item with a non-empty title and a non-empty snippet whose title contains
\* "day" or "observance" in any case.
Eligible(item) ==
    /\ item.type = "dict"
    /\ item.title.type = "str" /\ item.title.val # <<>>
    /\ item.snippet.type = "str" /\ item.snippet.val # <<>>
    /\ \/ ContainsIgnoringCase(item.title.val, DayWord)
       \/ ContainsIgnoringCase(item.title.val, ObservanceWord)

\* Titles of the eligible items among the first n of a list.
EligibleTitles(items, n) ==
    {items[i].title.val : i \in {j \in 1..n : Eligible(items[j])}}

\* Position of the first eligible item titled t among the first n of a list.
FirstEligible(items, n, t) ==
    CHOOSE i \in 1..n :
        /\ Eligible(items[i]) /\ items[i].title.val = t
        /\ \A j \in 1..(i - 1) : ~(Eligible(items[j]) /\ items[j].title.val = t)

\* d is s cut before its first "..." (all of s when there is none), without
\* the whitespace at either end.
IsTrimmedPrefix(d, s) ==
    \E n \in 0..Len(s) :
        /\ n = Len(s) \/ OccursAt(s, Dots, n + 1)
        /\ \A j \in 1..n : ~OccursAt(s, Dots, j)
        /\ d # <<>> => d[1] \notin Whitespace /\ d[Len(d)] \notin Whitespace
        /\ \E a \in 0..(n - Len(d)) :
              /\ \A j \in 1..a : s[j] \in Whitespace
              /\ \A j \in (a + Len(d) + 1)..n : s[j] \in Whitespace
              /\ d = SubSeq(s, a + 1, a + Len(d))

\* A lookup that has returned without any exception.
ReturnedOk == tpc = "returned" /\ exc = NoExc
\* A lookup that has returned after an exception.
ReturnedFailed == tpc = "returned" /\ exc # NoExc

\* C1: whatever the provider does (a response, a malformed response, an error
\* of the request, an error while the client is built), no exception leaves
\* get_special_day_info_from_external_source: every exception in flight is
\* one the handler of line 59 catches, the loop stays within the items, and
\* the invocation ends by returning a mapping from title strings to
\* description strings.
C1_NeverRaises ==
    /\ tpc \in {"idle", "build", "execute", "loop", "raised", "returned"}
    /\ tpc = "raised" => exc # NoExc /\ Catches(exc.type)
    /\ tpc = "loop" => idx \in 1..(Len(res.items) + 1)
    /\ tpc = "returned" =>
          \A t \in DOMAIN ret :
              /\ DOMAIN t = 1..Len(t)
              /\ DOMAIN ret[t] = 1..Len(ret[t])

\* C1 witness: the client could not be built and the tool returned {}.
C1_Witness ==
    /\ tpc = "returned"
    /\ exc = Exc("ServerNotFoundError", 74)
    /\ ret = EmptyMap

\* A configuration value is absent or empty in the environment.
ConfigAbsent ==
    \E n \in DOMAIN environ : environ[n] \in {PyNone, Str(<<>>)}

\* C2: when the API key or the engine id is absent or empty, the process goes
\* from the check straight to exit status 1: no request is issued, no agent
\* is constructed, no tool call or event is processed, nothing is printed.
C2_MissingConfigExits ==
    ConfigAbsent =>
        /\ pc \in {"getenv", "check", "exited"}
        /\ pc = "exited" => exit_status = 1
        /\ pc # "exited" => exit_status = -1
        /\ requests = <<>>
        /\ agent = "none"
        /\ calls = 0
        /\ tpc = "idle"
        /\ events = <<>>
        /\ printed = <<>>

\* C2 witness: the key is set, the engine id is not, and the process exited.
C2_Witness ==
    /\ environ["GOOGLE_CSE_API_KEY"] = Str(<<"K">>)
    /\ environ["GOOGLE_CSE_ID"] = PyNone
    /\ pc = "exited"
    /\ exit_status = 1
    /\ log = <<Error("missing_config")>>

\* C3: with the configuration present the process never ends abnormally: it
\* ends with status 0 after printing the closing line, and every error of the
\* agent runtime was logged and printed before that.
C3_OnlyConfigCrash ==
    (~ConfigAbsent /\ pc = "exited") =>
        /\ exit_status = 0
        /\ printed[Len(printed)] = "complete"

\* C4: after a successful response the keys of the returned mapping are
\* exactly the titles of the eligible items; a response without "items"
\* gives the empty mapping.
C4_KeysAreEligibleTitles ==
    ReturnedOk =>
        /\ DOMAIN ret = EligibleTitles(res.items, Len(res.items))
        /\ ~res.has_items => ret = EmptyMap

\* C4 witness: a response whose first item is titled "News" and whose second
\* is titled "OBSERVANCE" returned the second title only.
C4_Witness ==
    /\ ReturnedOk
    /\ Len(res.items) = 2
    /\ res.items[1].title = Str(News)
    /\ res.items[1].snippet = Str(PaddedE)
    /\ res.items[2].title = Str(UpperObservance)
    /\ DOMAIN ret = {UpperObservance}

\* C5: every description of the returned mapping is the snippet of an eligible
\* item with that title, cut before its first "..." and trimmed; the item
\* "International Day of X" / "A day for X... more text" gives "A day for X".
C5_DescriptionIsTrimmedPrefix ==
    ReturnedOk =>
        /\ \A t \in DOMAIN ret :
              \E i \in 1..Len(res.items) :
                  /\ Eligible(res.items[i])
                  /\ res.items[i].title.val = t
                  /\ IsTrimmedPrefix(ret[t], res.items[i].snippet.val)
        /\ (res.has_items /\ res.items = <<KeptItem>>) => ret = (IntlDayOfX :> ADayForX)

\* C5 witness: the example of the specification, and a snippet without "...".
C5_Witness ==
    /\ ReturnedOk
    /\ res.items = <<KeptItem,
                     [type |-> "dict", title |-> Str(UpperObservance),
                      snippet |-> Str(PaddedE)]>>
    /\ ret[IntlDayOfX] = ADayForX
    /\ ret[UpperObservance] = <<"e">>

\* C6: at every point of the loop and at the return, the description stored
\* under a title is the one of the first eligible item with that title among
\* the items processed so far: a later item never overwrites it.
C6_FirstDescriptionKept ==
    /\ tpc \in {"loop", "raised", "returned"} =>
          \A t \in DOMAIN results :
              /\ t \in EligibleTitles(res.items, idx - 1)
              /\ results[t] =
                    Description(res.items[FirstEligible(res.items, idx - 1, t)].snippet.val)
    /\ ReturnedOk =>
          \A t \in DOMAIN ret :
              ret[t] = Description(
                  res.items[FirstEligible(res.items, Len(res.items), t)].snippet.val)

\* C6 witness: the same title twice with different snippets; the first stays.
C6_Witness ==
    /\ ReturnedOk
    /\ res.items = <<KeptItem, SameTitleItem>>
    /\ ret = (IntlDayOfX :> ADayForX)

\* Whether the current invocation (the one whose "tool_call" record is the
\* last such record of the log) logged its error.
ErrorLoggedByCall ==
    \E k \in 1..Len(log) :
        /\ log[k] = Info("tool_call")
        /\ \A j \in (k + 1)..Len(log) : log[j] # Info("tool_call")
        /\ \E j \in (k + 1)..Len(log) : log[j] = Error("tool_error")

\* C7: a lookup that met an error has logged the error and returns the empty
\* mapping, also when items had been accepted before the error.
C7_FailedLookupReturnsEmpty ==
    ReturnedFailed =>
        /\ ret = EmptyMap
        /\ ErrorLoggedByCall

\* C7 witness: an item was accepted, the next one raised, and {} was returned.
C7_Witness ==
    /\ ReturnedFailed
    /\ exc = Exc("AttributeError", 83)
    /\ results = (IntlDayOfX :> ADayForX)
    /\ ret = EmptyMap

\* Requests issued by invocation c.
RequestsOf(c) == {i \in 1..Len(requests) : requests[i].call = c}

\* C8: every invocation issues at most one request, exactly one once the
\* client was built and line 79 was reached, none before; every request asks
\* for 5 results of the configured engine with the query of its invocation;
\* a request that failed is not repeated.
C8_OneRequestPerInvocation ==
    /\ \A c \in 1..calls : Cardinality(RequestsOf(c)) <= 1
    /\ \A i \in 1..Len(requests) :
          /\ requests[i].num = 5
          /\ requests[i].cx = environ["GOOGLE_CSE_ID"]
          /\ requests[i].call \in 1..calls
    /\ tpc \in {"build", "execute"} => RequestsOf(calls) = {}
    /\ (tpc \in {"raised", "returned"} /\ exc.line = 74) => RequestsOf(calls) = {}
    /\ (tpc \in {"loop", "raised", "returned"} /\ exc.line # 74) =>
          /\ Cardinality(RequestsOf(calls)) = 1
          /\ requests[Len(requests)].call = calls
          /\ requests[Len(requests)].q = SearchQuery(date_query)

\* C8 witness: two invocations, one request each, the second one failed.
C8_Witness ==
    /\ calls = 2
    /\ tpc = "returned"
    /\ exc = Exc("HttpError", 79)
    /\ Len(requests) = 2
    /\ requests[1].q # requests[2].q

\* The mapping a response determines on its own.
MappingOf(response) ==
    [t \in EligibleTitles(response.items, Len(response.items)) |->
        Description(response.items[
            FirstEligible(response.items, Len(response.items), t)].snippet.val)]

\* C9: what an invocation returns is a function of the provider's answer to
\* it alone (the empty mapping when the answer was an error), whatever earlier
\* invocations returned or raised; and the two configuration values stay what
\* the environment held at start.
C9_InvocationsIndependent ==
    /\ pc # "getenv" =>
          /\ GOOGLE_CSE_API_KEY = environ["GOOGLE_CSE_API_KEY"]
          /\ GOOGLE_CSE_ID = environ["GOOGLE_CSE_ID"]
    /\ ReturnedOk => ret = MappingOf(res)
    /\ ReturnedFailed => ret = EmptyMap
    /\ tpc = "build" => results = EmptyMap /\ tool_results = EmptyMap

\* C9 witness: a second invocation returned a title after an earlier one had
\* failed.
C9_Witness ==
    /\ calls = 2
    /\ ReturnedOk
    /\ ret = (IntlDayOfX :> <<"e">>)
    /\ \E i \in 1..Len(log) : log[i] = Error("tool_error")

\* C10: the loop of run_daily_check stops at the first agent_response or
\* error event: such an event is the last one processed, at most one final
\* output or agent error is printed, and no tool event is printed or logged
\* after it.
C10_LoopStopsAtFinalEvent ==
    /\ \A i \in 1..(Len(events) - 1) :
          events[i].type \notin {"agent_response", "error"}
    /\ (events # <<>> /\ events[Len(events)].type \in {"agent_response", "error"})
          => pc \in {"after_run", "exited"}
    /\ Cardinality({i \in 1..Len(printed) :
                      printed[i] \in {"final_header", "agent_error"}}) <= 1
    /\ \A i \in 1..Len(printed) :
          printed[i] \in {"final_header", "agent_error"} =>
              \A j \in (i + 1)..Len(printed) :
                  printed[j] \in {"final_text", "unhandled_error", "complete"}
    /\ \A i \in 1..Len(log) :
          log[i] = Error("adk_error") => i = Len(log)

\* C10 witness: a tool event, then an error event, then the closing line.
C10_Witness ==
    /\ pc = "exited"
    /\ events = <<[type |-> "tool_code", wellformed |-> TRUE],
                  [type |-> "error", wellformed |-> TRUE]>>
    /\ printed = <<"banner", "debug_tool_code", "agent_error", "complete">>
====
